---- MODULE Spec2Model ----
(***************************************************************************)
(* live_lib: a hot-reloading loader of dynamic libraries (src/src/lib.rs). *)
(*                                                                         *)
(* The Loader keeps two maps (lib_name -> Lib, origin_path -> lib_name), a *)
(* queue of load files to delete later (pending_remove), a file watcher    *)
(* and the receiving end of the watcher's channel.  The model also holds   *)
(* what the Loader acts on: the files on disk; every Lib carries what was   *)
(* done to its Library and its partner, and dropped holds what had been    *)
(* done to the Libs that were dropped.                                     *)
(*                                                                         *)
(* Strings are sequences of one-character strings, so that the building    *)
(* of file names (library_filename, get_load_path) and the parsing of them *)
(* (extract_lib_name) are computed and not assumed.  A path is a directory *)
(* and a file name; library names are single path components.              *)
(***************************************************************************)
EXTENDS Integers, Sequences, FiniteSets, TLC

(***************************************************************************)
(* Bounds of the model.                                                    *)
(***************************************************************************)
\* load files (_live files) on disk
MaxLiveFiles == 3
\* events buffered in the watcher's channel
MaxEvents == 2

(***************************************************************************)
(* Strings, names and paths.                                               *)
(***************************************************************************)
\* std::env::consts::DLL_PREFIX and DLL_SUFFIX (Linux), LIVE_SUFFIX
DLL_PREFIX == <<"l", "i", "b">>
DLL_SUFFIX == <<".", "s", "o">>
LIVE_SUFFIX == <<"_", "l", "i", "v", "e">>

\* the library names the host asks for; the regex of extract_lib_name does
\* not match the file name of the last one (its '.' matches no line feed)
Names == {<<"f">>, <<"\n">>}

\* Loader::search_dirs: no additional directory, then the directory of the
\* executable
SearchDirs == <<"a">>

NoPath == [dir |-> "", file |-> <<>>]

\* PathBuf::join / PathBuf::push of a file name on a directory
join(dir, file_name) == [dir |-> dir, file |-> file_name]

\* libloading::library_filename
library_filename(lib_name) == DLL_PREFIX \o lib_name \o DLL_SUFFIX

\* the origin files the build system may write
OriginPaths ==
    {join(SearchDirs[i], library_filename(n)) : i \in DOMAIN SearchDirs, n \in Names}

Digit(d) ==
    CASE d = 0 -> "0" [] d = 1 -> "1" [] d = 2 -> "2" [] d = 3 -> "3"
      [] d = 4 -> "4" [] d = 5 -> "5" [] d = 6 -> "6" [] d = 7 -> "7"
      [] d = 8 -> "8" [] d = 9 -> "9"

RECURSIVE to_string(_)
\* i.to_string() of a non-negative integer
to_string(i) ==
    IF i < 10 THEN <<Digit(i)>> ELSE to_string(i \div 10) \o <<Digit(i % 10)>>

\* the candidate of index i in get_load_path
live_file(dir, lib_name, i) ==
    join(dir, DLL_PREFIX \o lib_name \o LIVE_SUFFIX \o to_string(i) \o DLL_SUFFIX)

RECURSIVE get_load_path_from(_, _, _, _)
get_load_path_from(fs, dir, lib_name, i) ==
    IF live_file(dir, lib_name, i) \notin fs
    THEN live_file(dir, lib_name, i)
    ELSE get_load_path_from(fs, dir, lib_name, i + 1)

\* a planner that does not look at the disk
get_load_path_no_exists(fs, dir, lib_name) == live_file(dir, lib_name, 0)

\* utils::get_load_path, on the disk fs: the first candidate that does not
\* exist
get_load_path(fs, dir, lib_name) == get_load_path_from(fs, dir, lib_name, 0)

\* utils::extract_lib_name: the regex ^lib(.+).so$ ; '.' is any character
\* but a line feed, in the suffix too (it is not escaped)
extract_lib_name(file_name) ==
    LET n == Len(file_name)
        p == Len(DLL_PREFIX)
        s == Len(DLL_SUFFIX)
        matches ==
            /\ n >= p + 1 + s
            /\ SubSeq(file_name, 1, p) = DLL_PREFIX
            /\ \A k \in (p + 1)..(n - s + 1) : file_name[k] # "\n"
            /\ SubSeq(file_name, n - s + 2, n) = SubSeq(DLL_SUFFIX, 2, s)
    IN  IF matches
        THEN [ok |-> TRUE, name |-> SubSeq(file_name, p + 1, n - s)]
        ELSE [ok |-> FALSE, name |-> <<>>]

(***************************************************************************)
(* The state.                                                              *)
(***************************************************************************)
VARIABLES
    alive,                    \* the Loader exists (it was not dropped)
    lib_name_to_lib,          \* Loader::lib_name_to_lib
    origin_path_to_lib_name,  \* Loader::origin_path_to_lib_name
    pending_remove,           \* Loader::pending_remove, front first
    file_watcher,             \* the paths Loader::file_watcher watches
    file_receiver,            \* the events buffered in Loader::file_receiver
    files,                    \* the files that exist on disk
    dropped                   \* the Libs that were dropped, as they ended

vars ==
    <<alive, lib_name_to_lib, origin_path_to_lib_name, pending_remove,
      file_watcher, file_receiver, files, dropped>>

\* what a file copy, Library::new and P::load do in one call of Loader::add:
\* all succeed, or the named one fails
Fates == {"ok", "copy", "load", "partner"}

\* the DebouncedEvent kinds the watcher posts here: Write for a written
\* file (Create takes the same arm of update), Remove for a deleted one
\* (as do the other kinds update ignores)
Kinds == {"Write", "Remove"}

\* a Library returned by Library::new, and what was done with it since:
\* calls of P::load and whether the last returned Ok, calls of P::unload,
\* whether the Library was released, and whether P::unload ran on it after
\* that
NewLoad ==
    [constructs |-> 0, partner_ok |-> FALSE, destructs |-> 0,
     released |-> FALSE, destruct_after_release |-> FALSE]

\* struct Lib; partner is TRUE for Some
NoLib ==
    [lib |-> NewLoad, lib_name |-> <<>>, load_path |-> NoPath,
     origin_path |-> NoPath, partner |-> FALSE]

EmptyMap == [x \in {} |-> NoLib]

\* HashMap::insert
MapPut(m, k, v) == [x \in DOMAIN m \cup {k} |-> IF x = k THEN v ELSE m[x]]

\* HashMap::remove
MapDel(m, k) == [x \in DOMAIN m \ {k} |-> m[x]]

Range(q) == {q[i] : i \in DOMAIN q}

\* the part of the state the private methods work on
Self ==
    [lib_name_to_lib |-> lib_name_to_lib,
     origin_path_to_lib_name |-> origin_path_to_lib_name,
     pending_remove |-> pending_remove,
     files |-> files,
     dropped |-> dropped]

Result(s, res, err) == [s |-> s, res |-> res, err |-> err]

\* a Drop of Lib that forgets the partner
drop_lib_no_unload(lib) == [lib.lib EXCEPT !.released = TRUE]

\* impl Drop for Lib, then the drop of its fields: the partner, when there
\* is one, is taken and unloaded; then the Library is released.  The value
\* is the Library as it ended
drop_lib(lib) ==
    LET unloaded ==
            IF lib.partner
            THEN [lib.lib EXCEPT !.destructs = @ + 1,
                                 !.destruct_after_release = @ \/ lib.lib.released]
            ELSE lib.lib
    IN  [unloaded EXCEPT !.released = TRUE]

\* Loader::copy: std::fs::copy fails when the origin is not there, or when
\* the OS says so
copy(fs, origin, load, fate) ==
    IF origin \notin fs \/ fate = "copy"
    THEN [ok |-> FALSE, files |-> fs]
    ELSE [ok |-> TRUE, files |-> fs \cup {load}]

\* an add that publishes the entry before the partner is loaded
add_publish_first(s, lib_name, origin_path, load_path, fate) ==
    LET c == copy(s.files, origin_path, load_path, fate)
        lib == [lib |-> [NewLoad EXCEPT !.constructs = 1,
                                        !.partner_ok = (fate = "ok")],
                lib_name |-> lib_name, load_path |-> load_path,
                origin_path |-> origin_path, partner |-> (fate = "ok")]
        s1 == [s EXCEPT !.files = c.files]
    IN  IF ~c.ok THEN Result(s, "Err", "copy")
        ELSE IF fate = "load" THEN Result(s1, "Err", "load")
        ELSE Result(
                 [s1 EXCEPT
                    !.origin_path_to_lib_name = MapPut(@, origin_path, lib_name),
                    !.lib_name_to_lib = MapPut(@, lib_name, lib)],
                 IF fate = "ok" THEN "Ok" ELSE "Err",
                 IF fate = "ok" THEN "none" ELSE "partner")

\* Loader::add
add(s, lib_name, origin_path, load_path, fate) ==
    LET c == copy(s.files, origin_path, load_path, fate)
        s1 == [s EXCEPT !.files = c.files]
        \* Library::new returned Ok; partner: None
        lib == [lib |-> NewLoad, lib_name |-> lib_name, load_path |-> load_path,
                origin_path |-> origin_path, partner |-> FALSE]
        \* P::load was called
        called == [lib EXCEPT !.lib.constructs = @ + 1]
        loaded == [called EXCEPT !.lib.partner_ok = TRUE, !.partner = TRUE]
        \* HashMap::insert drops the value it replaces
        s2 == IF lib_name \in DOMAIN s1.lib_name_to_lib
              THEN [s1 EXCEPT
                      !.dropped = @ \cup {drop_lib(s1.lib_name_to_lib[lib_name])}]
              ELSE s1
    IN  IF ~c.ok THEN Result(s, "Err", "copy")
        ELSE IF fate = "load" THEN Result(s1, "Err", "load")
        ELSE IF fate = "partner"
        THEN \* lib is dropped with partner: None
             Result([s1 EXCEPT !.dropped = @ \cup {drop_lib(called)}],
                    "Err", "partner")
        ELSE Result(
                 [s2 EXCEPT
                    !.origin_path_to_lib_name = MapPut(@, origin_path, lib_name),
                    !.lib_name_to_lib = MapPut(@, lib_name, loaded)],
                 "Ok", "none")

\* a remove that leaves the entry in lib_name_to_lib
remove_keep_lib(s, origin_path) ==
    IF origin_path \notin DOMAIN s.origin_path_to_lib_name
    THEN [s |-> s, res |-> "Err", err |-> "lib_name", old |-> NoLib]
    ELSE [s |-> [s EXCEPT !.origin_path_to_lib_name = MapDel(@, origin_path)],
          res |-> "Ok", err |-> "none",
          old |-> s.lib_name_to_lib[s.origin_path_to_lib_name[origin_path]]]

\* a remove that forgets the load file of the entry
remove_no_queue(s, origin_path) ==
    IF origin_path \notin DOMAIN s.origin_path_to_lib_name
    THEN [s |-> s, res |-> "Err", err |-> "lib_name", old |-> NoLib]
    ELSE LET lib_name == s.origin_path_to_lib_name[origin_path]
             lib == s.lib_name_to_lib[lib_name]
         IN  [s |-> [s EXCEPT
                       !.origin_path_to_lib_name = MapDel(@, origin_path),
                       !.lib_name_to_lib = MapDel(@, lib_name),
                       !.dropped = @ \cup {drop_lib(lib)}],
              res |-> "Ok", err |-> "none", old |-> lib]

\* Loader::remove; old is the Lib it took out of the map and dropped
remove(s, origin_path) ==
    IF origin_path \notin DOMAIN s.origin_path_to_lib_name
    THEN [s |-> s, res |-> "Err", err |-> "lib_name", old |-> NoLib]
    ELSE LET lib_name == s.origin_path_to_lib_name[origin_path]
             s1 == [s EXCEPT !.origin_path_to_lib_name = MapDel(@, origin_path)]
         IN  IF lib_name \notin DOMAIN s.lib_name_to_lib
             THEN [s |-> s1, res |-> "Err", err |-> "lib", old |-> NoLib]
             ELSE LET lib == s.lib_name_to_lib[lib_name]
                  IN  [s |-> [s1 EXCEPT
                                !.lib_name_to_lib = MapDel(@, lib_name),
                                !.pending_remove = Append(@, lib.load_path),
                                !.dropped = @ \cup {drop_lib(lib)}],
                       res |-> "Ok", err |-> "none", old |-> lib]

RECURSIVE search_from(_, _, _)
search_from(fs, lib_name, i) ==
    IF i > Len(SearchDirs)
    THEN [found |-> FALSE, origin_path |-> NoPath, load_path |-> NoPath]
    ELSE IF join(SearchDirs[i], library_filename(lib_name)) \in fs
    THEN [found |-> TRUE,
          origin_path |-> join(SearchDirs[i], library_filename(lib_name)),
          load_path |-> get_load_path(fs, SearchDirs[i], lib_name)]
    ELSE search_from(fs, lib_name, i + 1)

\* Loader::search: the first search directory that holds the library
search(fs, lib_name) == search_from(fs, lib_name, 1)

(***************************************************************************)
(* The public methods, as functions of the state: the value holds the new  *)
(* state and what the call returns (res: Ok or Err, err: the error).  The  *)
(* value of update_fn also tells the event an error stopped at: its path,  *)
(* the name extracted from it, the Lib that remove had dropped for it and  *)
(* the load path planned for it.                                           *)
(***************************************************************************)

\* an add_library that does not look for the name in lib_name_to_lib
add_library_again(s, w, lib_name, fate, watch_ok) ==
    LET found == search(s.files, lib_name)
        added == add(s, lib_name, found.origin_path, found.load_path, fate)
    IN  IF ~found.found
        THEN [s |-> s, w |-> w, res |-> "Err", err |-> "search",
              load_path |-> NoPath]
        ELSE IF added.res = "Err"
        THEN [s |-> added.s, w |-> w, res |-> "Err", err |-> added.err,
              load_path |-> found.load_path]
        ELSE [s |-> added.s, w |-> w \cup {found.origin_path},
              res |-> "Ok", err |-> "none", load_path |-> found.load_path]

\* Loader::add_library: s is Self, w the watched paths; fate and watch_ok
\* are what the OS and the watcher answer; load_path is the path planned
add_library_fn(s, w, lib_name, fate, watch_ok) ==
    LET found == search(s.files, lib_name)
        added == add(s, lib_name, found.origin_path, found.load_path, fate)
    IN  IF lib_name \in DOMAIN s.lib_name_to_lib
        THEN [s |-> s, w |-> w, res |-> "Ok", err |-> "none",
              load_path |-> NoPath]
        ELSE IF ~found.found
        THEN [s |-> s, w |-> w, res |-> "Err", err |-> "search",
              load_path |-> NoPath]
        ELSE IF added.res = "Err"
        THEN [s |-> added.s, w |-> w, res |-> "Err", err |-> added.err,
              load_path |-> found.load_path]
        ELSE IF ~watch_ok
        THEN [s |-> added.s, w |-> w, res |-> "Err", err |-> "watch",
              load_path |-> found.load_path]
        ELSE [s |-> added.s, w |-> w \cup {found.origin_path},
              res |-> "Ok", err |-> "none", load_path |-> found.load_path]

\* a remove_library that takes a name that is not loaded for an error
remove_library_strict(s, w, lib_name, unwatch_ok) ==
    IF lib_name \in DOMAIN s.lib_name_to_lib
    THEN LET origin_path == s.lib_name_to_lib[lib_name].origin_path
             removed == remove(s, origin_path)
         IN  IF ~unwatch_ok
             THEN [s |-> s, w |-> w, res |-> "Err", err |-> "unwatch"]
             ELSE [s |-> removed.s, w |-> w \ {origin_path},
                   res |-> removed.res, err |-> removed.err]
    ELSE [s |-> s, w |-> w, res |-> "Err", err |-> "lib"]

\* Loader::remove_library
remove_library_fn(s, w, lib_name, unwatch_ok) ==
    IF lib_name \in DOMAIN s.lib_name_to_lib
    THEN LET origin_path == s.lib_name_to_lib[lib_name].origin_path
             removed == remove(s, origin_path)
         IN  IF ~unwatch_ok
             THEN [s |-> s, w |-> w, res |-> "Err", err |-> "unwatch"]
             ELSE [s |-> removed.s, w |-> w \ {origin_path},
                   res |-> removed.res, err |-> removed.err]
    ELSE [s |-> s, w |-> w, res |-> "Ok", err |-> "none"]

RECURSIVE retry_pending_skip(_, _, _)
\* a walk that goes on past a path whose deletion failed
retry_pending_skip(q, fs, permit) ==
    IF q = <<>> THEN [pending_remove |-> q, files |-> fs]
    ELSE IF Head(q) \in fs /\ Head(q) \in permit
    THEN retry_pending_skip(Tail(q), fs \ {Head(q)}, permit)
    ELSE LET rest == retry_pending_skip(Tail(q), fs, permit)
         IN  [pending_remove |-> <<Head(q)>> \o rest.pending_remove,
              files |-> rest.files]

RECURSIVE retry_pending(_, _, _)
\* the first loop of Loader::update: std::fs::remove_file on the front of
\* pending_remove, popped when the file was deleted; the loop ends at the
\* first refusal.  permit: the files the OS lets go of now
retry_pending(q, fs, permit) ==
    IF q = <<>> THEN [pending_remove |-> q, files |-> fs]
    ELSE IF Head(q) \in fs /\ Head(q) \in permit
    THEN retry_pending(Tail(q), fs \ {Head(q)}, permit)
    ELSE [pending_remove |-> q, files |-> fs]

\* a reload that loads the new library at the load path of the old one
changed_reuse_path(s, path, fate) ==
    LET removed == remove(s, path)
        extracted == extract_lib_name(path.file)
        load_path == removed.old.load_path
        added == add(removed.s, extracted.name, path, load_path, fate)
    IN  IF removed.res = "Err"
        THEN [s |-> removed.s, res |-> "Err", err |-> removed.err,
              lib_name |-> <<>>, old |-> NoLib, load_path |-> NoPath]
        ELSE IF ~extracted.ok
        THEN [s |-> removed.s, res |-> "Err", err |-> "extract",
              lib_name |-> <<>>, old |-> removed.old, load_path |-> NoPath]
        ELSE [s |-> added.s, res |-> added.res, err |-> added.err,
              lib_name |-> extracted.name, old |-> removed.old,
              load_path |-> load_path]

\* the arm of Create and Write in Loader::update
changed(s, path, fate) ==
    LET removed == remove(s, path)
        extracted == extract_lib_name(path.file)
        load_path == get_load_path(removed.s.files, path.dir, extracted.name)
        added == add(removed.s, extracted.name, path, load_path, fate)
    IN  IF removed.res = "Err"
        THEN [s |-> removed.s, res |-> "Err", err |-> removed.err,
              lib_name |-> <<>>, old |-> NoLib, load_path |-> NoPath]
        ELSE IF ~extracted.ok
        THEN [s |-> removed.s, res |-> "Err", err |-> "extract",
              lib_name |-> <<>>, old |-> removed.old, load_path |-> NoPath]
        ELSE [s |-> added.s, res |-> added.res, err |-> added.err,
              lib_name |-> extracted.name, old |-> removed.old,
              load_path |-> load_path]

RECURSIVE receive(_, _, _, _, _)
\* the second loop of Loader::update: try_recv until the channel is empty
\* or an event fails; fates[k] is the fate of the k-th event of the channel
receive(s, events, k, fates, gone) ==
    IF events = <<>>
    THEN [s |-> s, events |-> events,
          res |-> IF gone THEN "Err" ELSE "Ok",
          err |-> IF gone THEN "disconnected" ELSE "none",
          path |-> NoPath, lib_name |-> <<>>, old |-> NoLib,
          load_path |-> NoPath]
    ELSE IF Head(events).kind \in {"Create", "Write"}
    THEN LET c == changed(s, Head(events).path, fates[k])
         IN  IF c.res = "Err"
             THEN [s |-> c.s, events |-> Tail(events),
                   res |-> "Err", err |-> c.err,
                   path |-> Head(events).path, lib_name |-> c.lib_name,
                   old |-> c.old, load_path |-> c.load_path]
             ELSE receive(c.s, Tail(events), k + 1, fates, gone)
    ELSE receive(s, Tail(events), k + 1, fates, gone)

\* Loader::update, as a function of the state; gone: the watcher's thread
\* has ended and try_recv finds the channel disconnected once it is empty
update_fn(s, events, permit, fates, gone) ==
    LET retried == retry_pending(s.pending_remove, s.files, permit)
    IN  receive([s EXCEPT !.pending_remove = retried.pending_remove,
                          !.files = retried.files],
                events, 1, fates, gone)

\* the drop of lib_name_to_lib: every Lib is dropped
drop_all(m) == {drop_lib(m[n]) : n \in DOMAIN m}

(***************************************************************************)
(* The actions: the calls of the host, and what the build system and the   *)
(* watcher's thread do between them.                                       *)
(***************************************************************************)
Init ==
    /\ alive = TRUE
    /\ lib_name_to_lib = EmptyMap
    /\ origin_path_to_lib_name = EmptyMap
    /\ pending_remove = <<>>
    /\ file_watcher = {}
    /\ file_receiver = <<>>
    /\ files = {}
    /\ dropped = {}

\* the load files on disk: the Loader writes no other file
LiveFiles == files \ OriginPaths

\* the fates of the events of a channel: update returns at the first
\* failure, so one event at most fails
FatesOf(events) ==
    {fates \in [DOMAIN events -> Fates] :
        Cardinality({k \in DOMAIN events : fates[k] # "ok"}) <= 1}

\* the files the OS may let go of during an update: the first loop of
\* update ends at the first refusal, so the fronts of pending_remove are
\* all the cases
Permits == {Range(SubSeq(pending_remove, 1, k)) : k \in 0..Len(pending_remove)}

\* the Create and Write events of a channel
NumChanged(events) ==
    Cardinality({i \in DOMAIN events : events[i].kind \in {"Create", "Write"}})

add_library(lib_name, fate, watch_ok) ==
    /\ alive
    /\ lib_name \in DOMAIN lib_name_to_lib \/ Cardinality(LiveFiles) < MaxLiveFiles
    /\ LET r == add_library_fn(Self, file_watcher, lib_name, fate, watch_ok)
       IN  /\ lib_name_to_lib' = r.s.lib_name_to_lib
           /\ origin_path_to_lib_name' = r.s.origin_path_to_lib_name
           /\ pending_remove' = r.s.pending_remove
           /\ files' = r.s.files
           /\ dropped' = r.s.dropped
           /\ file_watcher' = r.w
    /\ UNCHANGED <<alive, file_receiver>>

remove_library(lib_name, unwatch_ok) ==
    /\ alive
    /\ LET r == remove_library_fn(Self, file_watcher, lib_name, unwatch_ok)
       IN  /\ lib_name_to_lib' = r.s.lib_name_to_lib
           /\ origin_path_to_lib_name' = r.s.origin_path_to_lib_name
           /\ pending_remove' = r.s.pending_remove
           /\ files' = r.s.files
           /\ dropped' = r.s.dropped
           /\ file_watcher' = r.w
    /\ UNCHANGED <<alive, file_receiver>>

update_with(permit, fates, gone) ==
    /\ alive
    /\ Cardinality(LiveFiles) + NumChanged(file_receiver) <= MaxLiveFiles
    /\ LET r == update_fn(Self, file_receiver, permit, fates, gone)
       IN  /\ lib_name_to_lib' = r.s.lib_name_to_lib
           /\ origin_path_to_lib_name' = r.s.origin_path_to_lib_name
           /\ pending_remove' = r.s.pending_remove
           /\ files' = r.s.files
           /\ dropped' = r.s.dropped
           /\ file_receiver' = r.events
    /\ UNCHANGED <<alive, file_watcher>>

\* a call of Loader::update, whatever the OS and the partner answer
update ==
    \E permit \in Permits, fates \in FatesOf(file_receiver), gone \in BOOLEAN :
        update_with(permit, fates, gone)

\* the Loader goes out of scope: its fields are dropped in the order of
\* their declaration; no file is deleted
drop_loader ==
    /\ alive
    /\ alive' = FALSE
    /\ file_watcher' = {}
    /\ file_receiver' = <<>>
    /\ dropped' = dropped \cup drop_all(lib_name_to_lib)
    /\ lib_name_to_lib' = EmptyMap
    /\ origin_path_to_lib_name' = EmptyMap
    /\ pending_remove' = <<>>
    /\ UNCHANGED files

\* the watcher's thread posts an event for a path it watches
post(kind, path) ==
    IF path \in file_watcher
    THEN /\ Len(file_receiver) < MaxEvents
         /\ file_receiver' = Append(file_receiver, [kind |-> kind, path |-> path])
    ELSE UNCHANGED file_receiver

\* the build system writes an origin file
origin_written(path) ==
    /\ alive
    /\ files' = files \cup {path}
    /\ post("Write", path)
    /\ UNCHANGED <<alive, lib_name_to_lib, origin_path_to_lib_name, pending_remove,
                   file_watcher, dropped>>

\* the build system deletes an origin file
origin_removed(path) ==
    /\ alive
    /\ path \in files
    /\ files' = files \ {path}
    /\ post("Remove", path)
    /\ UNCHANGED <<alive, lib_name_to_lib, origin_path_to_lib_name, pending_remove,
                   file_watcher, dropped>>

Next ==
    \/ \E n \in Names, fate \in Fates :
           \E watch_ok \in (IF fate = "ok" THEN BOOLEAN ELSE {TRUE}) :
               add_library(n, fate, watch_ok)
    \/ \E n \in Names, unwatch_ok \in BOOLEAN : remove_library(n, unwatch_ok)
    \/ update
    \/ drop_loader
    \/ \E path \in OriginPaths : origin_written(path)
    \/ \E path \in OriginPaths : origin_removed(path)

Spec == Init /\ [][Next]_vars

(***************************************************************************)
(* What the calls can return from the current state, for every answer of   *)
(* the OS, the partner and the watcher.                                    *)
(***************************************************************************)
UpdateResults ==
    {update_fn(Self, file_receiver, permit, fates, gone) :
        permit \in Permits, fates \in FatesOf(file_receiver), gone \in BOOLEAN}

LoadFailures == {"copy", "load", "partner"}

OriginOf(lib_name) == join(SearchDirs[1], library_filename(lib_name))

LoadPaths == {lib_name_to_lib[n].load_path : n \in DOMAIN lib_name_to_lib}

WatchedAreLoaded ==
    alive => file_watcher =
                 {lib_name_to_lib[n].origin_path : n \in DOMAIN lib_name_to_lib}

PendingNotLoaded ==
    /\ \A i \in DOMAIN pending_remove : pending_remove[i] \notin LoadPaths
    /\ \A i \in DOMAIN SearchDirs, n \in Names :
          get_load_path(files, SearchDirs[i], n) \notin Range(pending_remove)
    /\ \A r \in UpdateResults :
          \A n \in DOMAIN r.s.lib_name_to_lib :
              r.s.lib_name_to_lib[n].load_path \notin Range(r.s.pending_remove)

\* a reloaded library: its old load file is queued, it lives in the next
PendingNotLoadedWitness ==
    \E n \in DOMAIN lib_name_to_lib :
        /\ lib_name_to_lib[n].load_path = live_file(SearchDirs[1], n, 1)
        /\ pending_remove = <<live_file(SearchDirs[1], n, 0)>>

(***************************************************************************)
(* C5: no two loaded entries have the same load path; the load path of a   *)
(* new load (by add_library or by a reload) is the path of no file that is *)
(* on disk when it is planned, so of no loaded entry.                      *)
(***************************************************************************)
LoadPathsDistinct ==
    /\ \A n, m \in DOMAIN lib_name_to_lib :
          lib_name_to_lib[n].load_path = lib_name_to_lib[m].load_path => n = m
    /\ \A n \in Names \ DOMAIN lib_name_to_lib, fate \in Fates :
          LET r == add_library_fn(Self, file_watcher, n, fate, TRUE)
          IN  r.load_path \notin files
    /\ \A permit \in Permits, fates \in FatesOf(file_receiver) :
          LET retried == retry_pending(pending_remove, files, permit)
              r == update_fn(Self, file_receiver, permit, fates, FALSE)
          IN  /\ r.load_path \notin retried.files
              /\ \A n \in DOMAIN r.s.lib_name_to_lib :
                    \/ /\ n \in DOMAIN lib_name_to_lib
                       /\ r.s.lib_name_to_lib[n] = lib_name_to_lib[n]
                    \/ r.s.lib_name_to_lib[n].load_path \notin retried.files

\* both libraries are loaded, one of them past a load file left on disk
LoadPathsDistinctWitness ==
    /\ DOMAIN lib_name_to_lib = Names
    /\ \E n \in Names :
          /\ lib_name_to_lib[n].load_path = live_file(SearchDirs[1], n, 1)
          /\ live_file(SearchDirs[1], n, 0) \in files

(***************************************************************************)
(* C6: P::load was called exactly once on every Library that Library::new  *)
(* returned; P::unload is called exactly once on a partner that P::load    *)
(* returned, when its Lib is dropped and before the Library is released,   *)
(* and never when P::load failed; dropping the Loader drops every Lib.     *)
(***************************************************************************)
PartnerOncePerLoad ==
    /\ \A n \in DOMAIN lib_name_to_lib :
          /\ lib_name_to_lib[n].partner
          /\ lib_name_to_lib[n].lib =
                 [NewLoad EXCEPT !.constructs = 1, !.partner_ok = TRUE]
    /\ \A d \in dropped :
          /\ d.constructs = 1
          /\ d.destructs = (IF d.partner_ok THEN 1 ELSE 0)
          /\ d.released
          /\ ~d.destruct_after_release
    /\ ~alive => DOMAIN lib_name_to_lib = {}

\* the Loader was dropped; a partner had been unloaded, and a P::load had
\* failed
PartnerOncePerLoadWitness ==
    /\ ~alive
    /\ \E d \in dropped : d.partner_ok /\ d.destructs = 1
    /\ \E d \in dropped : ~d.partner_ok /\ d.constructs = 1

(***************************************************************************)
(* C7: an add_library that returns an error leaves the name in neither     *)
(* map, and both maps, pending_remove and the watched paths as they were.  *)
(***************************************************************************)
AddLibraryTransactional ==
    [][\A n \in Names, fate \in Fates, watch_ok \in BOOLEAN :
          LET r == add_library_fn(Self, file_watcher, n, fate, watch_ok)
          IN  add_library(n, fate, watch_ok) /\ r.res = "Err" =>
                  /\ n \notin DOMAIN lib_name_to_lib'
                  /\ \A p \in DOMAIN origin_path_to_lib_name' :
                        origin_path_to_lib_name'[p] # n
                  /\ UNCHANGED <<lib_name_to_lib, origin_path_to_lib_name,
                                 pending_remove, file_watcher>>]_vars

(***************************************************************************)
(* C8: when Library::new or P::load fails, in add_library or in a reload,  *)
(* the load file that was copied for it is not on disk when the error is   *)
(* returned.                                                               *)
(***************************************************************************)
FailedLoadDeletesLoadFile ==
    [][/\ \A n \in Names, fate \in {"load", "partner"} :
             LET r == add_library_fn(Self, file_watcher, n, fate, TRUE)
             IN  add_library(n, fate, TRUE) /\ r.err = fate =>
                     r.load_path \notin files'
       /\ \A permit \in Permits, fates \in FatesOf(file_receiver) :
             LET r == update_fn(Self, file_receiver, permit, fates, FALSE)
             IN  update_with(permit, fates, FALSE)
                     /\ r.err \in {"load", "partner"} =>
                     r.load_path \notin files']_vars

(***************************************************************************)
(* C9: update returns no error for a Create or Write event whose path is   *)
(* no key of origin_path_to_lib_name.                                      *)
(***************************************************************************)
UnknownEventIsDropped ==
    [][\A permit \in Permits, fates \in FatesOf(file_receiver), gone \in BOOLEAN :
          update_with(permit, fates, gone) =>
              update_fn(Self, file_receiver, permit, fates, gone).err # "lib_name"]_vars

(***************************************************************************)
(* C10: when the new load of a reload fails (copy, Library::new, P::load), *)
(* update returns the error, the name is in neither map, the old partner   *)
(* was unloaded and the old load path is in pending_remove.                *)
(***************************************************************************)
FailedReloadLeavesAbsent ==
    alive =>
        \A r \in UpdateResults :
            r.err \in LoadFailures =>
                /\ r.res = "Err"
                /\ r.lib_name = r.old.lib_name
                /\ r.path = r.old.origin_path
                /\ r.lib_name \notin DOMAIN r.s.lib_name_to_lib
                /\ r.path \notin DOMAIN r.s.origin_path_to_lib_name
                /\ \A p \in DOMAIN r.s.origin_path_to_lib_name :
                      r.s.origin_path_to_lib_name[p] # r.lib_name
                /\ r.old.partner
                /\ [r.old.lib EXCEPT !.destructs = 1, !.released = TRUE]
                       \in r.s.dropped
                /\ r.old.load_path \in Range(r.s.pending_remove)

\* a reload of f has failed: f is in neither map, its origin is still
\* watched and its last load file is queued
FailedReloadLeavesAbsentWitness ==
    /\ alive
    /\ <<"f">> \notin DOMAIN lib_name_to_lib
    /\ OriginOf(<<"f">>) \notin DOMAIN origin_path_to_lib_name
    /\ OriginOf(<<"f">>) \in file_watcher
    /\ \E i \in 0..MaxLiveFiles :
          live_file(SearchDirs[1], <<"f">>, i) \in Range(pending_remove)

\* the Create and Write events among the first k events of a channel that
\* name the path
Touched(events, k, path) ==
    \E i \in 1..k : events[i].kind \in {"Create", "Write"} /\ events[i].path = path

\* what C11 says of the update r called in the current state
ReloadKeptBinding(r) ==
    LET handled == Len(file_receiver) - Len(r.events)
    IN  /\ \A n \in DOMAIN lib_name_to_lib :
              LET old == lib_name_to_lib[n]
                  new == r.s.lib_name_to_lib[n]
              IN  IF Touched(file_receiver, handled, old.origin_path)
                  THEN /\ r.res = "Ok" => n \in DOMAIN r.s.lib_name_to_lib
                       /\ n \in DOMAIN r.s.lib_name_to_lib =>
                             /\ new.lib_name = n
                             /\ new.origin_path = old.origin_path
                             /\ new.load_path # old.load_path
                             /\ new.partner
                             /\ old.origin_path \in DOMAIN r.s.origin_path_to_lib_name
                             /\ r.s.origin_path_to_lib_name[old.origin_path] = n
                             /\ old.load_path \in Range(r.s.pending_remove)
                  ELSE /\ n \in DOMAIN r.s.lib_name_to_lib
                       /\ new = old
        /\ DOMAIN r.s.lib_name_to_lib \subseteq DOMAIN lib_name_to_lib

DropDeletesLoadFiles ==
    [][drop_loader =>
          (LoadPaths \cup Range(pending_remove)) \cap files' = {}]_vars

(***************************************************************************)
(* C13: when remove_library has removed an entry, or update has reloaded   *)
(* one or lost it to a failed reload, the load file the entry had is not   *)
(* on disk or its path is in pending_remove when the call returns.         *)
(***************************************************************************)
PriorLoadFileTracked ==
    /\ \A n \in DOMAIN lib_name_to_lib, unwatch_ok \in BOOLEAN :
          LET r == remove_library_fn(Self, file_watcher, n, unwatch_ok)
              old == lib_name_to_lib[n].load_path
          IN  /\ unwatch_ok => r.res = "Ok" /\ n \notin DOMAIN r.s.lib_name_to_lib
              /\ n \notin DOMAIN r.s.lib_name_to_lib =>
                    old \notin r.s.files \/ old \in Range(r.s.pending_remove)
    /\ \A r \in UpdateResults :
          \A n \in DOMAIN lib_name_to_lib :
              LET old == lib_name_to_lib[n].load_path
              IN  \/ /\ n \in DOMAIN r.s.lib_name_to_lib
                     /\ r.s.lib_name_to_lib[n] = lib_name_to_lib[n]
                  \/ old \notin r.s.files
                  \/ old \in Range(r.s.pending_remove)

\* f was removed by remove_library: it is not loaded nor watched, and the
\* load file it had is on disk and queued
PriorLoadFileTrackedWitness ==
    /\ alive
    /\ <<"f">> \notin DOMAIN lib_name_to_lib
    /\ OriginOf(<<"f">>) \notin file_watcher
    /\ live_file(SearchDirs[1], <<"f">>, 0) \in Range(pending_remove) \cap files

(***************************************************************************)
(* C14: add_library of a name that is loaded returns Ok and changes        *)
(* nothing: no file, no Lib loaded or dropped, no watched path, neither    *)
(* map nor pending_remove, whatever the OS and the watcher would answer.   *)
(***************************************************************************)
AddLoadedIsNoOp ==
    \A n \in DOMAIN lib_name_to_lib, fate \in Fates, watch_ok \in BOOLEAN :
        LET r == add_library_fn(Self, file_watcher, n, fate, watch_ok)
        IN  /\ r.res = "Ok"
            /\ r.s = Self
            /\ r.w = file_watcher

\* f is loaded where it was loaded first and its origin is on disk, so a
\* search for it would find it, and a copy would make another load file
AddLoadedIsNoOpWitness ==
    /\ alive
    /\ <<"f">> \in DOMAIN lib_name_to_lib
    /\ search(files, <<"f">>).found
    /\ search(files, <<"f">>).load_path \notin files
    /\ LiveFiles = {lib_name_to_lib[<<"f">>].load_path}

(***************************************************************************)
(* C15: remove_library of a name that is not loaded returns Ok and changes *)
(* neither map, no watched path and not pending_remove; so a second        *)
(* remove_library of a name, after one that returned Ok or with the same   *)
(* answer of the watcher, leaves the state the first one left.             *)
(***************************************************************************)
RemoveIsIdempotent ==
    /\ \A n \in Names \ DOMAIN lib_name_to_lib, unwatch_ok \in BOOLEAN :
          LET r == remove_library_fn(Self, file_watcher, n, unwatch_ok)
          IN  /\ r.res = "Ok"
              /\ r.s = Self
              /\ r.w = file_watcher
    /\ \A n \in Names, first \in BOOLEAN, second \in BOOLEAN :
          LET r1 == remove_library_fn(Self, file_watcher, n, first)
              r2 == remove_library_fn(r1.s, r1.w, n, second)
          IN  r1.res = "Ok" \/ first = second =>
                  /\ r2.s = r1.s
                  /\ r2.w = r1.w
                  /\ r2.res = r1.res

\* no library is loaded: both were removed by remove_library, their load
\* files are queued and their origins, still on disk, are not watched
RemoveIsIdempotentWitness ==
    /\ alive
    /\ DOMAIN lib_name_to_lib = {}
    /\ file_watcher = {}
    /\ Len(pending_remove) = 2
    /\ OriginPaths \subseteq files

(***************************************************************************)
(* C16: from a state where a name is not loaded, add_library, then         *)
(* remove_library, then add_library of it (nothing failing) ends as the    *)
(* first add_library did: the same maps but for the entry's load path, the *)
(* same watched paths, the same pending_remove and as many load files on   *)
(* disk.                                                                   *)
(***************************************************************************)
AddRemoveAddIsAdd ==
    \A n \in Names \ DOMAIN lib_name_to_lib :
        LET r1 == add_library_fn(Self, file_watcher, n, "ok", TRUE)
            r2 == remove_library_fn(r1.s, r1.w, n, TRUE)
            r3 == add_library_fn(r2.s, r2.w, n, "ok", TRUE)
        IN  alive /\ r1.res = "Ok" =>
                /\ r3.res = "Ok"
                /\ DOMAIN r3.s.lib_name_to_lib = DOMAIN r1.s.lib_name_to_lib
                /\ \A m \in DOMAIN r1.s.lib_name_to_lib :
                      [r3.s.lib_name_to_lib[m] EXCEPT !.load_path = NoPath] =
                          [r1.s.lib_name_to_lib[m] EXCEPT !.load_path = NoPath]
                /\ r3.s.origin_path_to_lib_name = r1.s.origin_path_to_lib_name
                /\ r3.w = r1.w
                /\ r3.s.pending_remove = r1.s.pending_remove
                /\ Cardinality(r3.s.files \ OriginPaths) =
                       Cardinality(r1.s.files \ OriginPaths)

\* the index of the first path of the queue q that the OS does not delete
\* (its file is not there, or the OS refuses), or Len(q) + 1
FirstRefused(q, fs, permit) ==
    LET refused == {i \in DOMAIN q : q[i] \notin fs \/ q[i] \notin permit}
    IN  IF refused = {} THEN Len(q) + 1
        ELSE CHOOSE i \in refused : \A j \in refused : i <= j

(***************************************************************************)
(* C17: whatever files the OS lets go of, the first loop of update deletes *)
(* and pops the paths of pending_remove from the front up to the first     *)
(* one whose deletion fails, and leaves the others in their order; update  *)
(* handles the events after that: what it queues comes behind them, and a  *)
(* load path it plans is the path of no file that is left on disk.         *)
(***************************************************************************)
PendingWalkedFromFront ==
    \A permit \in SUBSET Range(pending_remove) :
        LET retried == retry_pending(pending_remove, files, permit)
            k == FirstRefused(pending_remove, files, permit)
            left == SubSeq(pending_remove, k, Len(pending_remove))
        IN  /\ retried.pending_remove = left
            /\ retried.files = files \ {pending_remove[i] : i \in 1..(k - 1)}
            /\ \A fates \in FatesOf(file_receiver), gone \in BOOLEAN :
                  LET r == update_fn(Self, file_receiver, permit, fates, gone)
                  IN  /\ Len(r.s.pending_remove) >= Len(left)
                      /\ SubSeq(r.s.pending_remove, 1, Len(left)) = left
                      /\ r.load_path \notin retried.files

\* two load files are queued and an update, where the OS lets go of the
\* first only, reloads a library at the path of the first
PendingWalkedFromFrontWitness ==
    /\ alive
    /\ Len(pending_remove) = 2
    /\ \E fates \in FatesOf(file_receiver) :
          LET r == update_fn(Self, file_receiver, {pending_remove[1]}, fates, FALSE)
          IN  /\ r.res = "Ok"
              /\ r.s.pending_remove[1] = pending_remove[2]
              /\ \E n \in DOMAIN r.s.lib_name_to_lib :
                    r.s.lib_name_to_lib[n].load_path = pending_remove[1]

(***************************************************************************)
(* The Loader in a directory that something else cleans: a load file that  *)
(* is queued in pending_remove can be deleted by another process (the      *)
(* build system cleaning its output directory) before update retries it.   *)
(* The host loads one library here, and nothing fails: every copy, load    *)
(* and call of the watcher succeeds.                                       *)
(***************************************************************************)
\* another process deletes a load file that is queued; load files are not
\* watched
load_file_removed(path) ==
    /\ alive
    /\ path \in Range(pending_remove) \cap files
    /\ files' = files \ {path}
    /\ UNCHANGED <<alive, lib_name_to_lib, origin_path_to_lib_name, pending_remove,
                   file_watcher, file_receiver, dropped>>

\* the directory is cleaned of one queued load file, while every queued
\* file is there and none is queued twice
cleaned ==
    /\ Range(pending_remove) \subseteq files
    /\ Cardinality(Range(pending_remove)) = Len(pending_remove)
    /\ \E path \in Range(pending_remove) : load_file_removed(path)

\* an update where no load fails and the watcher's thread lives
update_ok ==
    \E permit \in Permits :
        update_with(permit, [k \in DOMAIN file_receiver |-> "ok"], FALSE)

NextEnv ==
    \/ add_library(<<"f">>, "ok", TRUE)
    \/ remove_library(<<"f">>, TRUE)
    \/ update_ok
    \/ origin_written(OriginOf(<<"f">>))
    \/ cleaned

SpecEnv == Init /\ [][NextEnv]_vars

(***************************************************************************)
(* C18: an update during which the OS permits the deletion of every file   *)
(* that exists, and that finds no event, pops the front of pending_remove  *)
(* at least: no state is left as it is by such an update with a path in    *)
(* the queue, or calling update again and again would never drain it.      *)
(***************************************************************************)
PendingEventuallyDrains ==
    alive /\ pending_remove # <<>> =>
        LET r == update_fn(Self, <<>>, files, <<>>, FALSE)
        IN  /\ r.res = "Ok"
            /\ Len(r.s.pending_remove) < Len(pending_remove)

RECURSIVE ReclaimingPlan(_, _, _, _, _)
\* the planner C19 describes, on the disk fs where the OS permits the
\* deletion of the files of permit: the first candidate that is not there
\* or that can be deleted
ReclaimingPlan(fs, permit, dir, lib_name, i) ==
    IF live_file(dir, lib_name, i) \notin fs \/ live_file(dir, lib_name, i) \in permit
    THEN live_file(dir, lib_name, i)
    ELSE ReclaimingPlan(fs, permit, dir, lib_name, i + 1)

(***************************************************************************)
(* C19: whichever of the queued load files the OS would let go of, an     *)
(* add_library that loads a library loads it at the first candidate that   *)
(* was not on disk or could be deleted, and that path is not in            *)
(* pending_remove afterwards.                                              *)
(***************************************************************************)
PlannerReclaims ==
    [][\A n \in Names \ DOMAIN lib_name_to_lib,
          permit \in SUBSET (Range(pending_remove) \cap files) :
          LET found == search(files, n)
              plan == ReclaimingPlan(files, permit, found.origin_path.dir, n, 0)
          IN  add_library(n, "ok", TRUE) /\ found.found =>
                  /\ lib_name_to_lib'[n].load_path = plan
                  /\ plan \notin Range(pending_remove')]_vars

(***************************************************************************)
(* C20: the file name of every origin path that is bound to a name gives   *)
(* that name back through extract_lib_name, which is the name a reload of  *)
(* it is added under; and the file name with anything behind the suffix    *)
(* is rejected.                                                            *)
(***************************************************************************)
NameStableAcrossReloads ==
    \A p \in DOMAIN origin_path_to_lib_name :
        /\ extract_lib_name(p.file) =
               [ok |-> TRUE, name |-> origin_path_to_lib_name[p]]
        /\ \A tail \in {<<"a">>, <<"x", "s", "o">>} :
              ~extract_lib_name(p.file \o tail).ok

====
